---------------------------- MODULE Spec2Model ----------------------------
(***************************************************************************)
(* Model of src/app.py: the ColdFusion converter web application.          *)
(*                                                                         *)
(* The process starts (module import, then the __main__ guard when run as  *)
(* a script), and then serves POST /convert requests on concurrent handler *)
(* threads.  A handler reads the form, stores an allowed upload under       *)
(* uploads/<secure_filename>, reads it back, removes it, validates, calls  *)
(* the completion API once and serialises the result.                      *)
(*                                                                         *)
(* Text is a sequence of one-character strings, file content a sequence of *)
(* bytes.  The upload folder follows POSIX semantics: a directory entry    *)
(* names an inode, an open file keeps its inode after the entry is gone.   *)
(* I/O failures of the environment (full disk, permissions) are outside    *)
(* the model; the exceptions modelled are the ones inputs and scheduling   *)
(* decide.                                                                 *)
(***************************************************************************)
EXTENDS Integers, Sequences, FiniteSets, TLC

\* Requests accepted in one run of the server.
MaxRequests == 2

\* Python's None.
None == "<None>"

\* The handler threads of the (threaded) server.
Workers == {"w1", "w2"}

---------------------------------------------------------------------------
\* Strings as sequences of characters

Whitespace == {" ", "\t", "\n", "\r"}

RECURSIVE LStrip(_, _)
LStrip(s, chars) ==
  IF s # <<>> /\ Head(s) \in chars THEN LStrip(Tail(s), chars) ELSE s

RECURSIVE RStrip(_, _)
RStrip(s, chars) ==
  IF s # <<>> /\ s[Len(s)] \in chars
  THEN RStrip(SubSeq(s, 1, Len(s) - 1), chars) ELSE s

\* str.strip(chars)
StripChars(s, chars) == RStrip(LStrip(s, chars), chars)

\* str.strip()
Strip(s) == StripChars(s, Whitespace)

UpperCase == <<"A","B","C","D","E","F","G","H","I","J","K","L","M",
               "N","O","P","Q","R","S","T","U","V","W","X","Y","Z">>
LowerCase == <<"a","b","c","d","e","f","g","h","i","j","k","l","m",
               "n","o","p","q","r","s","t","u","v","w","x","y","z">>
Digits == {"0","1","2","3","4","5","6","7","8","9"}

Range(f) == {f[i] : i \in DOMAIN f}

\* str.lower()
Lower(s) ==
  [i \in 1..Len(s) |->
     IF s[i] \in Range(UpperCase)
     THEN LowerCase[CHOOSE k \in 1..26 : UpperCase[k] = s[i]]
     ELSE s[i]]

\* Position of the last occurrence of c in s, 0 when there is none.
LastIndex(s, c) ==
  IF \E i \in 1..Len(s) : s[i] = c
  THEN CHOOSE i \in 1..Len(s) : s[i] = c /\ \A j \in (i+1)..Len(s) : s[j] # c
  ELSE 0

\* filename.rsplit('.', 1)[1]
Extension(filename) ==
  SubSeq(filename, LastIndex(filename, ".") + 1, Len(filename))

ALLOWED_EXTENSIONS ==
  { <<"c","f","m">>, <<"c","f","c">>, <<"c","f","m","l">>, <<"t","x","t">> }

AllowedFileAnyExtension(filename) ==
  \E i \in 1..Len(filename) : filename[i] = "."

allowed_file(filename) ==
  /\ \E i \in 1..Len(filename) : filename[i] = "."
  /\ Lower(Extension(filename)) \in ALLOWED_EXTENSIONS

\* werkzeug's secure_filename on ASCII names (POSIX: os.sep "/", no altsep):
\* separators become spaces, whitespace runs become "_", characters outside
\* [A-Za-z0-9_.-] are dropped, leading and trailing "." and "_" are stripped.
ReplaceSep(s) == [i \in 1..Len(s) |-> IF s[i] = "/" THEN " " ELSE s[i]]

\* Length of the first whitespace-free word of t (t starts with a non-blank).
FirstWordLen(t) ==
  CHOOSE n \in 1..Len(t) :
    /\ \A i \in 1..n : t[i] \notin Whitespace
    /\ (n = Len(t) \/ t[n + 1] \in Whitespace)

\* "_".join(s.split())
RECURSIVE JoinWords(_)
JoinWords(s) ==
  LET t == LStrip(s, Whitespace) IN
    IF t = <<>> THEN <<>>
    ELSE LET n    == FirstWordLen(t)
             rest == LStrip(SubSeq(t, n + 1, Len(t)), Whitespace)
         IN  IF rest = <<>> THEN SubSeq(t, 1, n)
             ELSE SubSeq(t, 1, n) \o <<"_">> \o JoinWords(rest)

SafeChars ==
  Range(UpperCase) \cup Range(LowerCase) \cup Digits \cup {"_", ".", "-"}

secure_filename(filename) ==
  StripChars(SelectSeq(JoinWords(ReplaceSep(filename)),
                       LAMBDA c : c \in SafeChars),
             {".", "_"})

---------------------------------------------------------------------------
\* Reading an uploaded file: open(filepath, 'r', encoding='utf-8').read()

\* The bytes that uploaded files are built from: CR, "x" and 0xFF, which no
\* UTF-8 text contains.
FileBytes == {13, 120, 255}

ValidUtf8(bytes) == \A i \in 1..Len(bytes) : bytes[i] < 128

\* The ASCII characters the model uses.
Chr(b) ==
  CASE b = 9  -> "\t"
    [] b = 10 -> "\n"
    [] b = 13 -> "\r"
    [] b = 32 -> " "
    [] b = 120 -> "x"
    [] OTHER  -> "?"

\* Text mode with newline=None: "\r\n" and "\r" are read as "\n".
RECURSIVE UniversalNewlines(_)
UniversalNewlines(t) ==
  IF t = <<>> THEN <<>>
  ELSE IF Head(t) = "\r"
       THEN <<"\n">> \o
            UniversalNewlines(IF Tail(t) # <<>> /\ t[2] = "\n"
                              THEN Tail(Tail(t)) ELSE Tail(t))
       ELSE <<Head(t)>> \o UniversalNewlines(Tail(t))

\* f.read() on valid UTF-8 content.
ReadText(bytes) == UniversalNewlines([i \in 1..Len(bytes) |-> Chr(bytes[i])])

---------------------------------------------------------------------------
\* CodeConverter

supported_languages ==
  [react  |-> "React with JavaScript/TypeScript",
   ruby   |-> "Ruby on Rails",
   python |-> "Python with Flask/Django",
   php    |-> "PHP",
   java   |-> "Java with Spring",
   csharp |-> "C# with ASP.NET"]

\* self.supported_languages.get(target_language, target_language)
DisplayLabel(target_language) ==
  IF target_language \in DOMAIN supported_languages
  THEN supported_languages[target_language]
  ELSE target_language

\* The pieces of an f-string: literal text, an interpolated str, an
\* interpolated text (sequence of characters).
Lit(s) == [kind |-> "lit", str |-> s, text |-> <<>>]
Str(s) == [kind |-> "str", str |-> s, text |-> <<>>]
Txt(t) == [kind |-> "text", str |-> "", text |-> t]

\* The template of base_prompt with its five interpolations.
PromptTemplate(label, target_language, custom_prompt, coldfusion_code) ==
  << Lit("You are an expert developer skilled in ColdFusion and "),
     Str(label),
     Lit(". Please convert the following ColdFusion code to "),
     Str(target_language),
     Lit(". Requirements: 1. Maintain the same functionality and logic 2. Follow best practices for "),
     Str(target_language),
     Lit(" 3. Include necessary imports/dependencies 4. Add comments explaining complex conversions 5. Ensure the code is production-ready 6. Handle any ColdFusion-specific features appropriately "),
     Str(custom_prompt),
     Lit(" ColdFusion Code to Convert: (fence) coldfusion "),
     Txt(coldfusion_code),
     Lit(" (fence) Please provide: 1. The converted code 2. A brief explanation of key changes made 3. Any additional setup or dependencies needed") >>

BasePrompt(coldfusion_code, target_language, custom_prompt) ==
  PromptTemplate(DisplayLabel(target_language), target_language,
                 custom_prompt, coldfusion_code)

SystemMessage ==
  "You are an expert code converter specializing in migrating legacy ColdFusion applications to modern frameworks."

\* The arguments of openai.ChatCompletion.create.
ChatCompletionRequest(coldfusion_code, target_language, custom_prompt) ==
  [model       |-> "gpt-4",
   messages    |-> << [role |-> "system", content |-> <<Lit(SystemMessage)>>],
                      [role |-> "user",
                       content |-> BasePrompt(coldfusion_code, target_language,
                                              custom_prompt)] >>,
   max_tokens  |-> 4000,
   temperature |-> "0.1"]

\* The user message of an outbound call.
UserMessage(call) == call.messages[2].content

Contains(content, piece) == \E i \in 1..Len(content) : content[i] = piece

\* What the completion API does with a call: a completion, a completion
\* whose usage object jsonify cannot serialise, a response without choices,
\* or an exception.
Outcomes == {"completion", "unserialisable", "no_choices", "raises"}

CompletionText == "<converted code>"
UsageStats == "<usage>"

\* str(e) of the exceptions.
ErrorText(what) ==
  CASE what = "raises"       -> "Rate limit reached for gpt-4"
    [] what = "no_key"       -> "No API key provided."
    [] what = "no_choices"   -> "list index out of range"
    [] what = "unserialisable" -> "Object of type OpenAIObject is not JSON serializable"
    [] what = "too_large"    -> "413 Request Entity Too Large"
    [] what = "not_found"    -> "[Errno 2] No such file or directory"
    [] what = "decode"       -> "utf-8 codec cannot decode byte 0xff"

Success(text, usage) ==
  [success |-> TRUE, converted_code |-> text, usage |-> usage]
Failure(message) == [success |-> FALSE, error |-> message]

NoCodeProvided == Failure("No ColdFusion code provided")
NoTargetLanguage == Failure("No target language specified")

---------------------------------------------------------------------------
\* The inputs drawn for a POST /convert request

\* Inline code_input values (a missing field reads as ''): empty, blank,
\* code after a leading blank.
CodeInputs == { <<>>, <<" ">>, <<" ", "x">> }

\* Uploaded file contents: a lone CR, code, code followed by a CR, and a
\* byte that is not UTF-8.
FileContents == { <<13>>, <<120>>, <<120, 13>>, <<255>> }

\* target_language values: missing, empty, a supported key, an unknown key.
Targets == {None, "", "react", "cobol"}

\* custom_prompt values: the field left out, which reads as ''.
CustomPrompts == {""}

\* A form field the handler has not used yet.
Unread == "<unread>"

\* Upload filenames with an allowed extension; both are stored under the
\* name "a.TXT".
StoredNames ==
  { <<"a",".","T","X","T">>,
    <<".",".","/","a",".","T","X","T">> }

\* Upload filenames the handler ignores: none selected, no extension, an
\* extension outside the allow-list.
IgnoredNames ==
  { <<>>, <<"n","o","t","e","s">>, <<"a",".","e","x","e">> }

NoFile == [present |-> FALSE, filename |-> <<>>, content |-> <<>>]

\* request.files['file'], when the part is there.
Uploads ==
  [present : {TRUE}, filename : StoredNames, content : FileContents]
  \cup [present : {TRUE}, filename : IgnoredNames, content : {<<120>>}]

\* A request whose body exceeds MAX_CONTENT_LENGTH: reading request.form
\* raises RequestEntityTooLarge.
TooLarge ==
  [too_large |-> TRUE, target_language |-> Unread, custom_prompt |-> Unread,
   code_input |-> <<>>, file |-> NoFile]

\* What a request carries.  code_input and the upload are drawn when the
\* request arrives; target_language and custom_prompt, which nothing looks at
\* before line 138, are drawn when the handler gets there.
Requests ==
  [too_large : {FALSE}, target_language : {Unread},
   custom_prompt : {Unread}, code_input : CodeInputs,
   file : {NoFile} \cup Uploads]
  \cup {TooLarge}

NoRequest ==
  [too_large |-> FALSE, target_language |-> Unread, custom_prompt |-> Unread,
   code_input |-> <<>>, file |-> NoFile]

---------------------------------------------------------------------------
\* The upload folder

UPLOAD_FOLDER == "uploads"

\* os.path.join(app.config['UPLOAD_FOLDER'], filename)
PathJoin(folder, filename) == [dir |-> folder, name |-> filename]

Paths ==
  {PathJoin(UPLOAD_FOLDER, secure_filename(n)) :
     n \in (StoredNames \cup IgnoredNames) \ {<<>>}}

NoPath == PathJoin("", <<>>)

\* One inode per directory entry and per open file is enough.
InodeIds == 1..(Cardinality(Paths) + Cardinality(Workers))

\* Writing data at offset 0 of a file holding old.
Overwrite(old, data) == data \o SubSeq(old, Len(data) + 1, Len(old))

---------------------------------------------------------------------------
\* The environment the process is started in

\* os.getenv('OPENAI_API_KEY')
KeyValues == {None, "sk-test"}

Truthy(v) == v # None /\ v # ""

\* not OPENAI_API_KEY
KeyMissing(key) == ~Truthy(key)

---------------------------------------------------------------------------
\* The validation of the route

\* not coldfusion_code.strip()
SourceMissing(coldfusion_code) == Strip(coldfusion_code) = <<>>

TargetMissingOnlyNone(target_language) == target_language = None

\* not target_language
TargetMissing(target_language) == ~Truthy(target_language)

\* file and file.filename and allowed_file(file.filename)
UploadAccepted(file) ==
  file.present /\ file.filename # <<>> /\ allowed_file(file.filename)

\* The exceptions of the completion call that CodeConverter.convert_code
\* catches: all that are raised inside its try block.
CaughtInConvertOnlyApiErrors == {"raises", "no_key"}

CaughtInConvert == {"raises", "no_key", "no_choices"}

RouteErrorResponseNoMessage(message) == [success |-> FALSE]

\* except Exception as e: return jsonify({'success': False, 'error': str(e)})
RouteErrorResponse(message) == Failure(message)

---------------------------------------------------------------------------
\* State

VARIABLES
  env,       \* the environment variables the process is started with
  proc,      \* "start", "loaded", "serving" or "exited"
  api_key,   \* openai.api_key
  served,    \* requests accepted so far
  dirents,   \* the upload folder: path -> inode, 0 where there is no entry
  inodes,    \* inode -> content
  pc,        \* where each handler thread stands
  req,       \* the request a thread is handling
  loc,       \* the handler's local variables
  sent,      \* the completion calls issued for the request
  resp       \* the response returned for the request

vars == <<env, proc, api_key, served, dirents, inodes, pc, req, loc, sent, resp>>

NoResponse == [none |-> TRUE]

\* Locals of convert_code (the route) besides the form fields; fd is the
\* file that file.save has open, wrote whether it has written it, exc the
\* exception raised, caught where it was caught ("convert": the method's
\* except clause, "route": the route's), outcome what the completion call
\* did.
NoLocals ==
  [coldfusion_code |-> <<>>, filepath |-> NoPath, fd |-> 0, wrote |-> FALSE,
   exc |-> "none", caught |-> "none", outcome |-> "none"]

Init ==
  /\ env \in [OPENAI_API_KEY : KeyValues]
  /\ proc = "start"
  /\ api_key = None
  /\ served = 0
  /\ dirents = [p \in Paths |-> 0]
  /\ inodes = [i \in InodeIds |-> <<>>]
  /\ pc = [w \in Workers |-> "idle"]
  /\ req = [w \in Workers |-> NoRequest]
  /\ loc = [w \in Workers |-> NoLocals]
  /\ sent = [w \in Workers |-> <<>>]
  /\ resp = [w \in Workers |-> NoResponse]

---------------------------------------------------------------------------
\* Startup

\* Module level, lines 12-35 and 109: the key is read and, when set, handed
\* to the client library; when not, an error is logged and the import goes on.
LoadModule ==
  /\ proc = "start"
  /\ api_key' = IF Truthy(env.OPENAI_API_KEY) THEN env.OPENAI_API_KEY ELSE None
  /\ proc' = "loaded"
  /\ UNCHANGED <<env, served, dirents, inodes, pc, req, loc, sent, resp>>

MainGuardAlwaysRuns(key) == "serving"

\* if not OPENAI_API_KEY: ... exit(1), else app.run(host='0.0.0.0', port=port)
MainGuard(key) == IF KeyMissing(key) THEN "exited" ELSE "serving"

\* if __name__ == '__main__': lines 157-177, when app.py is run as a script.
Main ==
  /\ proc = "loaded"
  /\ proc' = MainGuard(env.OPENAI_API_KEY)
  /\ UNCHANGED <<env, api_key, served, dirents, inodes, pc, req, loc, sent, resp>>

\* When the module is imported by a WSGI server or `flask run` instead,
\* __name__ is not '__main__': the block does not run and the application
\* object is served.
ServeImported ==
  /\ proc = "loaded"
  /\ proc' = "serving"
  /\ UNCHANGED <<env, api_key, served, dirents, inodes, pc, req, loc, sent, resp>>

---------------------------------------------------------------------------
\* POST /convert

\* The route's except clause: the response is the error, the handler is done.
Raise(w, what, locals) ==
  /\ resp' = [resp EXCEPT ![w] = RouteErrorResponse(ErrorText(what))]
  /\ loc' = [loc EXCEPT ![w] = [locals EXCEPT !.exc = what,
                                               !.caught = "route"]]
  /\ pc' = [pc EXCEPT ![w] = "done"]

\* Lines 119-128: the form is read, the upload is looked at.
Receive(w) ==
  /\ proc = "serving"
  /\ pc[w] = "idle"
  /\ served < MaxRequests
  /\ served' = served + 1
  /\ \E r \in Requests :
       /\ req' = [req EXCEPT ![w] = r]
       /\ IF r.too_large
          THEN Raise(w, "too_large", loc[w])
          ELSE /\ loc' = [loc EXCEPT ![w] =
                       [@ EXCEPT !.coldfusion_code = r.code_input,
                                 !.filepath =
                                    IF UploadAccepted(r.file)
                                    THEN PathJoin(UPLOAD_FOLDER,
                                           secure_filename(r.file.filename))
                                    ELSE NoPath]]
               /\ pc' = [pc EXCEPT ![w] =
                           IF UploadAccepted(r.file) THEN "save" ELSE "validate"]
               /\ resp' = resp
  /\ UNCHANGED <<env, proc, api_key, dirents, inodes, sent>>

Linked(i) == \E p \in Paths : dirents[p] = i
Held(i) == \E w \in Workers : loc[w].fd = i
FreeInode ==
  CHOOSE i \in InodeIds :
    /\ ~Linked(i) /\ ~Held(i)
    /\ \A j \in InodeIds : (~Linked(j) /\ ~Held(j)) => i <= j

\* file.save(filepath), first half: open(filepath, 'wb') creates the file or
\* truncates the one that is there.
SaveOpen(w) ==
  /\ pc[w] = "save"
  /\ LET p == loc[w].filepath
         i == IF dirents[p] # 0 THEN dirents[p] ELSE FreeInode
     IN  /\ dirents' = [dirents EXCEPT ![p] = i]
         /\ inodes' = [inodes EXCEPT ![i] = <<>>]
         /\ loc' = [loc EXCEPT ![w].fd = i]
  /\ pc' = [pc EXCEPT ![w] = "write"]
  /\ UNCHANGED <<env, proc, api_key, served, req, sent, resp>>

\* file.save(filepath), second half: the content is written and the file
\* closed.  An inode no entry names is gone once it is closed.
SaveWrite(w) ==
  /\ pc[w] = "write"
  /\ LET i == loc[w].fd
     IN  inodes' = [inodes EXCEPT ![i] =
                      IF Linked(i) \/ \E v \in Workers \ {w} : loc[v].fd = i
                      THEN Overwrite(inodes[i], req[w].file.content)
                      ELSE <<>>]
  /\ loc' = [loc EXCEPT ![w].fd = 0, ![w].wrote = TRUE]
  /\ pc' = [pc EXCEPT ![w] = "read"]
  /\ UNCHANGED <<env, proc, api_key, served, dirents, req, sent, resp>>

\* Lines 132-133: with open(filepath, 'r', encoding='utf-8') as f: f.read()
ReadFile(w) ==
  /\ pc[w] = "read"
  /\ LET p == loc[w].filepath IN
       IF dirents[p] = 0
       THEN Raise(w, "not_found", loc[w])
       ELSE IF ~ValidUtf8(inodes[dirents[p]])
            THEN Raise(w, "decode", loc[w])
            ELSE /\ loc' = [loc EXCEPT ![w].coldfusion_code =
                                          ReadText(inodes[dirents[p]])]
                 /\ pc' = [pc EXCEPT ![w] = "remove"]
                 /\ resp' = resp
  /\ UNCHANGED <<env, proc, api_key, served, dirents, inodes, req, sent>>

\* Line 136: os.remove(filepath)
RemoveFile(w) ==
  /\ pc[w] = "remove"
  /\ LET p == loc[w].filepath IN
       IF dirents[p] = 0
       THEN /\ Raise(w, "not_found", loc[w])
            /\ UNCHANGED <<dirents, inodes>>
       ELSE /\ dirents' = [dirents EXCEPT ![p] = 0]
            /\ inodes' = [inodes EXCEPT ![dirents[p]] =
                            IF Held(dirents[p]) THEN @ ELSE <<>>]
            /\ pc' = [pc EXCEPT ![w] = "validate"]
            /\ UNCHANGED <<loc, resp>>
  /\ UNCHANGED <<env, proc, api_key, served, req, sent>>

\* Lines 138-145 and 54-93: the two validations, then
\* CodeConverter.convert_code builds the prompt and issues the call.
Validate(w) ==
  /\ pc[w] = "validate"
  /\ \E t \in Targets :
       IF SourceMissing(loc[w].coldfusion_code)
       THEN /\ req' = [req EXCEPT ![w].target_language = t]
            /\ resp' = [resp EXCEPT ![w] = NoCodeProvided]
            /\ pc' = [pc EXCEPT ![w] = "done"]
            /\ sent' = sent
       ELSE IF TargetMissing(t)
            THEN /\ req' = [req EXCEPT ![w].target_language = t]
                 /\ resp' = [resp EXCEPT ![w] = NoTargetLanguage]
                 /\ pc' = [pc EXCEPT ![w] = "done"]
                 /\ sent' = sent
            ELSE \E c \in CustomPrompts :
                   /\ req' = [req EXCEPT ![w].target_language = t,
                                         ![w].custom_prompt = c]
                   /\ sent' = [sent EXCEPT ![w] =
                         Append(@, ChatCompletionRequest(
                                     loc[w].coldfusion_code, t, c))]
                   /\ pc' = [pc EXCEPT ![w] = "await"]
                   /\ resp' = resp
  /\ UNCHANGED <<env, proc, api_key, served, dirents, inodes, loc>>

\* Lines 95-106 and 147-151: the call returns or raises, convert_code (the
\* method) builds its result, the route serialises it.
Complete(w) ==
  /\ pc[w] = "await"
  /\ \E o \in (IF api_key = None THEN {"no_key"} ELSE Outcomes) :
       LET locals == [loc[w] EXCEPT !.outcome = o] IN
         IF o \in CaughtInConvert
         THEN /\ resp' = [resp EXCEPT ![w] = Failure(ErrorText(o))]
              /\ loc' = [loc EXCEPT ![w] = [locals EXCEPT !.exc = o,
                                                           !.caught = "convert"]]
              /\ pc' = [pc EXCEPT ![w] = "done"]
         ELSE IF o = "completion"
              THEN /\ resp' = [resp EXCEPT ![w] =
                                 Success(CompletionText, UsageStats)]
                   /\ loc' = [loc EXCEPT ![w] = locals]
                   /\ pc' = [pc EXCEPT ![w] = "done"]
              ELSE Raise(w, o, locals)
  /\ UNCHANGED <<env, proc, api_key, served, dirents, inodes, req, sent>>

\* The response is on the wire; the thread takes the next request.
Finish(w) ==
  /\ pc[w] = "done"
  /\ pc' = [pc EXCEPT ![w] = "idle"]
  /\ req' = [req EXCEPT ![w] = NoRequest]
  /\ loc' = [loc EXCEPT ![w] = NoLocals]
  /\ sent' = [sent EXCEPT ![w] = <<>>]
  /\ resp' = [resp EXCEPT ![w] = NoResponse]
  /\ UNCHANGED <<env, proc, api_key, served, dirents, inodes>>

Next ==
  \/ LoadModule
  \/ Main
  \/ ServeImported
  \/ \E w \in Workers :
       \/ Receive(w)
       \/ SaveOpen(w)
       \/ SaveWrite(w)
       \/ ReadFile(w)
       \/ RemoveFile(w)
       \/ Validate(w)
       \/ Complete(w)
       \/ Finish(w)

Spec == Init /\ [][Next]_vars

---------------------------------------------------------------------------
\* What a request asks for, read off the request alone

Handled(w) == pc[w] # "idle"
Responded(w) == pc[w] = "done"
Calls(w) == Len(sent[w])

\* The upload has a filename with an extension of the allow-list.
CarriesAllowedUpload(r) ==
  r.file.present /\ r.file.filename \in StoredNames

\* The upload has no filename, no extension, or one outside the allow-list.
CarriesIgnoredUpload(r) ==
  r.file.present /\ r.file.filename \in IgnoredNames

\* The request's own source text: the text of its upload when it carries an
\* allowed one (and that is UTF-8), else its code_input.
HasSourceText(r) ==
  ~r.too_large /\ (CarriesAllowedUpload(r) => ValidUtf8(r.file.content))

SourceText(r) ==
  IF CarriesAllowedUpload(r) THEN ReadText(r.file.content) ELSE r.code_input

Blank(text) == \A i \in 1..Len(text) : text[i] \in Whitespace

\* The responses a request can get, going by its own fields and by what the
\* completion API answers to its own call.
OwnResponses(r) ==
  IF r.too_large THEN {Failure(ErrorText("too_large"))}
  ELSE IF ~HasSourceText(r) THEN {Failure(ErrorText("decode"))}
  ELSE IF Blank(SourceText(r)) THEN {NoCodeProvided}
  ELSE IF r.target_language \in {None, ""} THEN {NoTargetLanguage}
  ELSE IF r.target_language = Unread THEN {}
  ELSE {Success(CompletionText, UsageStats)} \cup
       {Failure(ErrorText(o)) : o \in (Outcomes \cup {"no_key"}) \ {"completion"}}

---------------------------------------------------------------------------
\* Claims

\* C1: every request whose source text is non-empty after trimming and whose
\* target_language is a key of supported_languages gets exactly one outbound
\* completion call, whose user message contains that source text verbatim and
\* the display label of the key.
C1_OneCallWithSourceAndLabel ==
  \A w \in Workers :
    ( /\ Responded(w)
      /\ HasSourceText(req[w])
      /\ ~Blank(SourceText(req[w]))
      /\ req[w].target_language \in DOMAIN supported_languages )
    => /\ Calls(w) = 1
       /\ Contains(UserMessage(sent[w][1]), Txt(SourceText(req[w])))
       /\ Contains(UserMessage(sent[w][1]),
                   Str(supported_languages[req[w].target_language]))

\* C2: every request whose source text (the upload's content when an allowed
\* upload is present, else code_input) is empty or blank is answered
\* "No ColdFusion code provided", and no outbound call is made for it.
C2_BlankSourceRejected ==
  \A w \in Workers :
    ( /\ Handled(w)
      /\ HasSourceText(req[w])
      /\ Blank(SourceText(req[w])) )
    => /\ Calls(w) = 0
       /\ Responded(w) => resp[w] = NoCodeProvided

\* C3 as stated: every request whose target_language is missing or empty is
\* answered "No target language specified", and no outbound call is made.
C3_MissingTargetRejected ==
  \A w \in Workers :
    ( /\ Responded(w)
      /\ req[w].target_language \in {None, ""} )
    => /\ resp[w] = NoTargetLanguage
       /\ Calls(w) = 0

\* C3 amended: for a request whose target_language is missing or empty no
\* outbound call is made; it is answered "No ColdFusion code provided" when
\* the source text the handler holds is blank and "No target language
\* specified" otherwise; a request that fails before its target_language is
\* looked at is answered with the exception's text, without a call.
C3_MissingTargetRejectedAfterSource ==
  \A w \in Workers :
    /\ req[w].target_language \in {None, ""}
       => /\ Calls(w) = 0
          /\ Responded(w)
          /\ resp[w] = IF Blank(loc[w].coldfusion_code)
                       THEN NoCodeProvided ELSE NoTargetLanguage
    /\ (Responded(w) /\ req[w].target_language = Unread)
       => /\ Calls(w) = 0
          /\ loc[w].caught = "route"
          /\ resp[w] = Failure(ErrorText(loc[w].exc))

C3_Witness ==
  \E w \in Workers :
    /\ Responded(w)
    /\ req[w].target_language = ""
    /\ loc[w].coldfusion_code = <<" ", "x">>
    /\ resp[w] = NoTargetLanguage

\* C4: when the completion call raises, or its response has no choices, the
\* method returns {success: false, error: str(e)}: the exception is caught in
\* the method and not in the route, the request has made exactly one call (no
\* retry; no request makes more than one), and the process goes on serving.
C4_UpstreamFailureReported ==
  \A w \in Workers :
    /\ Calls(w) <= 1
    /\ (Responded(w) /\ loc[w].outcome \in {"raises", "no_key", "no_choices"})
       => /\ resp[w] = [success |-> FALSE, error |-> ErrorText(loc[w].outcome)]
          /\ loc[w].caught = "convert"
          /\ Calls(w) = 1
          /\ proc = "serving"

C4_Witness ==
  \E w \in Workers :
    /\ Responded(w)
    /\ loc[w].outcome = "no_choices"
    /\ resp[w] = [success |-> FALSE, error |-> "list index out of range"]
    /\ served = MaxRequests

\* C5: when a request carries both an allowed upload and inline code_input,
\* the source text in the prompt is the uploaded file's content and not the
\* inline text.
C5_UploadSupersedesInline ==
  \A w \in Workers :
    ( /\ Calls(w) > 0
      /\ CarriesAllowedUpload(req[w])
      /\ req[w].code_input # <<>> )
    => /\ Contains(UserMessage(sent[w][1]),
                   Txt(ReadText(req[w].file.content)))
       /\ ~Contains(UserMessage(sent[w][1]), Txt(req[w].code_input))

\* C6: an upload whose filename has no extension, or one outside the
\* allow-list, is ignored: the request writes nothing to the upload folder,
\* and its code_input is the source text that is validated and converted.
C6_IgnoredUploadUsesInline ==
  \A w \in Workers :
    (Handled(w) /\ CarriesIgnoredUpload(req[w]))
    => /\ ~loc[w].wrote
       /\ loc[w].filepath = NoPath
       /\ pc[w] \in {"validate", "await", "done"}
       /\ loc[w].coldfusion_code = req[w].code_input
       /\ Calls(w) > 0
          => Contains(UserMessage(sent[w][1]), Txt(req[w].code_input))
       /\ Responded(w)
          => (resp[w] = NoCodeProvided <=> Blank(req[w].code_input))

C6_Witness ==
  \E w \in Workers :
    /\ Responded(w)
    /\ req[w].file.filename = <<"a", ".", "e", "x", "e">>
    /\ req[w].code_input = <<" ", "x">>
    /\ Calls(w) = 1
    /\ resp[w].success

\* C7: concurrent requests do not interfere: the response of each request and
\* the prompt it sends depend on its own fields only.
C7_RequestsIndependent ==
  \A w \in Workers :
    /\ Responded(w) => resp[w] \in OwnResponses(req[w])
    /\ Calls(w) > 0
       => sent[w][1] = ChatCompletionRequest(SourceText(req[w]),
                                             req[w].target_language,
                                             req[w].custom_prompt)

\* C8 as stated: no handler runs while OPENAI_API_KEY is unset, however the
\* application is started.
C8_NoHandlerWithoutKey ==
  (proc = "serving" \/ \E w \in Workers : Handled(w))
  => Truthy(env.OPENAI_API_KEY)

\* C8 amended: when app.py is run as the main script and OPENAI_API_KEY is
\* unset, the process exits instead of serving, and a process that has
\* exited has run no handler.
C8_ScriptWithoutKeyExits ==
  /\ [][(Main /\ ~Truthy(env.OPENAI_API_KEY)) => proc' = "exited"]_vars
  /\ [](proc = "exited"
        => /\ served = 0
           /\ \A w \in Workers : ~Handled(w)
           /\ ~ENABLED (\E w \in Workers : Receive(w)))

C8_Witness ==
  /\ env.OPENAI_API_KEY = None
  /\ proc = "exited"
  /\ served = 0

\* C9: the file a request saved to the upload folder no longer exists when the
\* handler returns its response, on every exit path.  (Stated for a handler
\* that is alone with the upload folder.)
C9_UploadRemovedOnEveryPath ==
  \A w \in Workers :
    ( /\ Responded(w)
      /\ loc[w].wrote
      /\ \A v \in Workers \ {w} : loc[v].filepath = NoPath )
    => dirents[loc[w].filepath] = 0

\* C10: every request ends with one JSON response, either success with
\* converted_code and no error, or failure with error and no converted_code;
\* an exception outside the completion call is caught by the route and
\* reported as {success: false, error: str(e)}.
C10_OneWellFormedResponse ==
  \A w \in Workers :
    /\ Responded(w) <=> resp[w] # NoResponse
    /\ Responded(w)
       => \/ /\ DOMAIN resp[w] = {"success", "converted_code", "usage"}
             /\ resp[w].success
          \/ /\ DOMAIN resp[w] = {"success", "error"}
             /\ ~resp[w].success
    /\ (Responded(w) /\ loc[w].caught = "route")
       => /\ loc[w].exc \in {"too_large", "not_found", "decode", "unserialisable"}
          /\ resp[w] = [success |-> FALSE, error |-> ErrorText(loc[w].exc)]

C10_Witness ==
  \E w \in Workers :
    /\ Responded(w)
    /\ loc[w].caught = "route"
    /\ loc[w].exc = "decode"
    /\ resp[w] = [success |-> FALSE,
                  error |-> "utf-8 codec cannot decode byte 0xff"]

=============================================================================
